---- MODULE Spec2Model ----
(***************************************************************************)
(* Model of gprof/mpi_example.c (the row-partitioned matrix multiply and   *)
(* norm reduction run by `size` MPI ranks) and of the kernels of           *)
(* gprof/serial_example.c it is compared with.                             *)
(*                                                                         *)
(* Every rank runs main() of mpi_example.c; one action is one statement    *)
(* (or one collective entry / return) of main.  Matrix cells are the       *)
(* doubles 1.0, 2.0, ... of the program; every value the program computes  *)
(* within the bounds is a small integer, which a double holds exactly, so  *)
(* cells are modelled as integers.  The matrix size is the value atoi      *)
(* returns for argv[1]; a run without an argument is the run with the      *)
(* argument 500 (mpi_example.c:155), which lies beyond MaxN.               *)
(***************************************************************************)
EXTENDS Integers, Sequences, FiniteSets, TLC

\* ---------------------------------------------------------------- bounds
\* largest matrix size given on the command line
MaxN == 2
\* the smallest matrix size given on the command line is -MaxNeg
MaxNeg == 1
\* largest number of MPI ranks
MaxP == 3
\* largest row count and rank count the partition function is applied to
\* on its own (specification ChunkSpec)
MaxChunkN == 5
MaxChunkP == 4

\* ------------------------------------------------------------- constants
\* content of a cell that malloc returned and nobody wrote, and of an
\* automatic double that was never assigned (global_norm on rank != 0)
Garbage == -1
\* the root of the reduction (6th argument of MPI_Reduce)
Root == 0
\* argument of exit() / return value of main on an error path
EXIT_FAILURE_STATUS == 1
\* status of a rank whose main has not returned
Running == -1

\* the four matrices of main, in allocation order
Mats == <<"A_local", "B", "C_local", "D_local">>
\* the constants the matrices are initialised with
InitValue == <<1, 2, 0, 0>>

VARIABLES
    size,         \* MPI_Comm_size
    global_n,     \* atoi(argv[1])
    pc,           \* pc[r]: position of rank r in main
    mi,           \* mi[r]: index in Mats of the matrix the alloc/init/free phase is at
    local_start,  \* per rank
    local_end,    \* per rank
    local_rows,   \* per rank
    heap,         \* heap[r]: live malloc results, <<k, -1>> the row-pointer
                  \* array of matrix Mats[k], <<k, i>> its row i
    mat,          \* mat[r][k]: content of matrix Mats[k] of rank r
    bad,          \* bad[r]: a kernel of rank r touched a matrix that was not live
    local_norm,   \* per rank
    global_norm,  \* per rank (receive buffer of MPI_Reduce)
    arrived,      \* arrived[b]: ranks that have entered barrier b (1 or 2)
    reduce_buf,   \* contributions handed to MPI_Reduce: set of <<rank, value>>
    err,          \* err[r]: lines rank r wrote to stderr
    out,          \* norms printed: sequence of [rank, norm]
    status,       \* exit status per rank, Running while it runs
    coll          \* coll[r]: collectives rank r has entered, in order

vars == <<size, global_n, pc, mi, local_start, local_end, local_rows, heap, mat,
          bad, local_norm, global_norm, arrived, reduce_buf, err, out, status, coll>>

Ranks == 0 .. (size - 1)

\* ------------------------------------------------------ compute_local_chunk
\* mutant: the remainder offset is forgotten in local_start
ChunkStart_NoOffset(rank, sz, n) == rank * (n \div sz)

ChunkStart(rank, sz, n) ==
    LET rows_per_rank == n \div sz
        remainder     == n % sz
    IN  rank * rows_per_rank + (IF rank < remainder THEN rank ELSE remainder)

\* mutant: the extra rows go to the highest ranks instead of the lowest
ChunkEnd_HighRanks(rank, sz, n) ==
    LET rows_per_rank == n \div sz
        remainder     == n % sz
    IN  ChunkStart(rank, sz, n) + rows_per_rank
          + (IF rank >= sz - remainder THEN 1 ELSE 0)

ChunkEnd(rank, sz, n) ==
    LET rows_per_rank == n \div sz
        remainder     == n % sz
    IN  ChunkStart(rank, sz, n) + rows_per_rank
          + (IF rank < remainder THEN 1 ELSE 0)

\* ------------------------------------------------------------------ kernels
\* a rows x cols block filled with v (initialize_matrix_local)
initialize_matrix_local(rows, cols, v) ==
    [i \in 0 .. (rows - 1) |-> [j \in 0 .. (cols - 1) |-> v]]

\* C[i][j] after the k loop has run for k = 0 .. kk-1, starting from 0.0
RECURSIVE MulCell(_, _, _, _, _)
MulCell(A, B, i, j, kk) ==
    IF kk = 0 THEN 0
    ELSE MulCell(A, B, i, j, kk - 1) + A[i][kk - 1] * B[kk - 1][j]

matrix_multiply_local(A, B, rows, n) ==
    [i \in 0 .. (rows - 1) |-> [j \in 0 .. (n - 1) |-> MulCell(A, B, i, j, n)]]

matrix_add_local(A, B, rows, cols) ==
    [i \in 0 .. (rows - 1) |-> [j \in 0 .. (cols - 1) |-> A[i][j] + B[i][j]]]

\* sqrt of a double holding a non-negative integer: exact for the perfect
\* squares, rounded down otherwise
Sqrt(x) == CHOOSE r \in 0 .. x : r * r <= x /\ (r + 1) * (r + 1) > x

\* sum after the first t cells in row-major order
RECURSIVE SumSquares(_, _, _)
SumSquares(A, cols, t) ==
    IF t = 0 THEN 0
    ELSE LET i == (t - 1) \div cols
             j == (t - 1) % cols
         IN  SumSquares(A, cols, t - 1) + A[i][j] * A[i][j]

\* mutant: the square root is taken of the local sum, as
\* compute_frobenius_norm of the serial program does, before the reduction
compute_local_norm_Sqrt(A, rows, cols) == Sqrt(SumSquares(A, cols, rows * cols))

compute_local_norm(A, rows, cols) == SumSquares(A, cols, rows * cols)

\* ------------------------------------------------- serial_example.c kernels
initialize_matrix(n, v) == [i \in 0 .. (n - 1) |-> [j \in 0 .. (n - 1) |-> v]]

matrix_multiply(A, B, n) ==
    [i \in 0 .. (n - 1) |-> [j \in 0 .. (n - 1) |-> MulCell(A, B, i, j, n)]]

frobenius_sum(A, n) == SumSquares(A, n, n * n)

compute_frobenius_norm(A, n) == Sqrt(frobenius_sum(A, n))

\* the product matrix C of the serial program for size n: A filled with 1.0,
\* B filled with 2.0, C = A * B
SerialC(n) == matrix_multiply(initialize_matrix(n, 1), initialize_matrix(n, 2), n)

\* ------------------------------------------------------------------- heap
\* number of rows of matrix Mats[k] on rank r (first argument of its
\* allocation, initialisation and release): B is global_n x global_n, the
\* others local_rows x global_n
RowsOf(r, k) == IF Mats[k] = "B" THEN global_n ELSE local_rows[r]

\* the malloc results that make up the first `upto` rows of matrix k and its
\* row-pointer array (piece -1)
Pieces(k, upto) == {<<k, i>> : i \in (-1) .. (upto - 1)}

\* every piece of matrix k of rank r is allocated and not freed
Live(r, k) == Pieces(k, RowsOf(r, k)) \subseteq heap[r]

RECURSIVE SumBuf(_)
SumBuf(S) ==
    IF S = {} THEN 0
    ELSE LET x == CHOOSE y \in S : TRUE IN x[2] + SumBuf(S \ {x})

\* ------------------------------------------------------------------- Init
Init ==
    /\ size \in 1 .. MaxP
    /\ global_n \in (-MaxNeg) .. MaxN
    /\ pc = [r \in Ranks |-> "parse"]
    /\ mi = [r \in Ranks |-> 1]
    /\ local_start = [r \in Ranks |-> Garbage]
    /\ local_end = [r \in Ranks |-> Garbage]
    /\ local_rows = [r \in Ranks |-> Garbage]
    /\ heap = [r \in Ranks |-> {}]
    /\ mat = [r \in Ranks |-> [k \in 1 .. Len(Mats) |-> << >>]]
    /\ bad = [r \in Ranks |-> FALSE]
    /\ local_norm = [r \in Ranks |-> Garbage]
    /\ global_norm = [r \in Ranks |-> Garbage]
    /\ arrived = [b \in 1 .. 2 |-> {}]
    /\ reduce_buf = {}
    /\ err = [r \in Ranks |-> << >>]
    /\ out = << >>
    /\ status = [r \in Ranks |-> Running]
    /\ coll = [r \in Ranks |-> << >>]

\* ---------------------------------------------------------------- actions
\* mutant: the size check tests global_n < 0, so a size of 0 is accepted
Parse_AcceptsZero(r) ==
    /\ pc[r] = "parse"
    /\ IF global_n < 0
       THEN /\ err' = [err EXCEPT ![r] =
                         IF r = 0 THEN Append(@, "Matrix size must be positive")
                                  ELSE @]
            /\ status' = [status EXCEPT ![r] = EXIT_FAILURE_STATUS]
            /\ pc' = [pc EXCEPT ![r] = "exit_invalid"]
       ELSE /\ pc' = [pc EXCEPT ![r] = "chunk"]
            /\ UNCHANGED <<err, status>>
    /\ UNCHANGED <<size, global_n, mi, local_start, local_end, local_rows, heap,
                   mat, bad, local_norm, global_norm, arrived, reduce_buf, out, coll>>

\* mutant: the message is written without the test for rank 0
Parse_EveryRankReports(r) ==
    /\ pc[r] = "parse"
    /\ IF global_n <= 0
       THEN /\ err' = [err EXCEPT ![r] = Append(@, "Matrix size must be positive")]
            /\ status' = [status EXCEPT ![r] = EXIT_FAILURE_STATUS]
            /\ pc' = [pc EXCEPT ![r] = "exit_invalid"]
       ELSE /\ pc' = [pc EXCEPT ![r] = "chunk"]
            /\ UNCHANGED <<err, status>>
    /\ UNCHANGED <<size, global_n, mi, local_start, local_end, local_rows, heap,
                   mat, bad, local_norm, global_norm, arrived, reduce_buf, out, coll>>

\* main, lines 164-174: the size check.  A non-positive size makes every rank
\* call MPI_Finalize and return 1; rank 0 alone writes the message.
Parse(r) ==
    /\ pc[r] = "parse"
    /\ IF global_n <= 0
       THEN /\ err' = [err EXCEPT ![r] =
                         IF r = 0 THEN Append(@, "Matrix size must be positive")
                                  ELSE @]
            /\ status' = [status EXCEPT ![r] = EXIT_FAILURE_STATUS]
            /\ pc' = [pc EXCEPT ![r] = "exit_invalid"]
       ELSE /\ pc' = [pc EXCEPT ![r] = "chunk"]
            /\ UNCHANGED <<err, status>>
    /\ UNCHANGED <<size, global_n, mi, local_start, local_end, local_rows, heap,
                   mat, bad, local_norm, global_norm, arrived, reduce_buf, out, coll>>

\* main, lines 177-178
Chunk(r) ==
    /\ pc[r] = "chunk"
    /\ local_start' = [local_start EXCEPT ![r] = ChunkStart(r, size, global_n)]
    /\ local_end' = [local_end EXCEPT ![r] = ChunkEnd(r, size, global_n)]
    /\ local_rows' = [local_rows EXCEPT ![r] =
                        ChunkEnd(r, size, global_n) - ChunkStart(r, size, global_n)]
    /\ pc' = [pc EXCEPT ![r] = "alloc"]
    /\ UNCHANGED <<size, global_n, mi, heap, mat, bad, local_norm, global_norm,
                   arrived, reduce_buf, err, out, status, coll>>

\* the position after the phase at matrix mi[r]: the next matrix, or the
\* next phase after the fourth
Advance(r, next) ==
    IF mi[r] < Len(Mats)
    THEN /\ mi' = [mi EXCEPT ![r] = @ + 1]
         /\ UNCHANGED pc
    ELSE /\ mi' = [mi EXCEPT ![r] = 1]
         /\ pc' = [pc EXCEPT ![r] = next]

\* allocate_matrix_local, every malloc returning a pointer (lines 192-195)
AllocOk(r) ==
    /\ pc[r] = "alloc"
    /\ LET k == mi[r] IN
         /\ heap' = [heap EXCEPT ![r] = @ \cup Pieces(k, RowsOf(r, k))]
         /\ mat' = [mat EXCEPT ![r][k] =
                      initialize_matrix_local(RowsOf(r, k), global_n, Garbage)]
    /\ Advance(r, "init")
    /\ UNCHANGED <<size, global_n, local_start, local_end, local_rows, bad,
                   local_norm, global_norm, arrived, reduce_buf, err, out, status, coll>>

\* allocate_matrix_local, a malloc returning NULL: the one of the row-pointer
\* array (f = -1) or the one of row f.  The rank writes the message and calls
\* exit(1); what it had allocated stays allocated.
AllocFail(r) ==
    /\ pc[r] = "alloc"
    /\ \E f \in (-1) .. (RowsOf(r, mi[r]) - 1) :
         heap' = [heap EXCEPT ![r] = @ \cup Pieces(mi[r], f)]
    /\ err' = [err EXCEPT ![r] = Append(@, "Memory allocation failed")]
    /\ status' = [status EXCEPT ![r] = EXIT_FAILURE_STATUS]
    /\ pc' = [pc EXCEPT ![r] = "exit_alloc"]
    /\ UNCHANGED <<size, global_n, mi, local_start, local_end, local_rows, mat, bad,
                   local_norm, global_norm, arrived, reduce_buf, out, coll>>

\* initialize_matrix_local of the matrix at mi[r] (lines 202-205)
InitMatrix(r) ==
    /\ pc[r] = "init"
    /\ LET k == mi[r] IN
         /\ mat' = [mat EXCEPT ![r][k] =
                      initialize_matrix_local(RowsOf(r, k), global_n, InitValue[k])]
         /\ bad' = [bad EXCEPT ![r] = @ \/ ~Live(r, k)]
    /\ Advance(r, "barrier1")
    /\ UNCHANGED <<size, global_n, local_start, local_end, local_rows, heap,
                   local_norm, global_norm, arrived, reduce_buf, err, out, status, coll>>

\* MPI_Barrier returns on a rank once every rank of MPI_COMM_WORLD has
\* entered it
\* mutant: a barrier that lets a rank through without waiting for the others
BarrierOpen_NoWait(b) == TRUE

BarrierOpen(b) == arrived[b] = Ranks

BarrierEnter(r, b, at, to) ==
    /\ pc[r] = at
    /\ arrived' = [arrived EXCEPT ![b] = @ \cup {r}]
    /\ coll' = [coll EXCEPT ![r] = Append(@, "Barrier")]
    /\ pc' = [pc EXCEPT ![r] = to]
    /\ UNCHANGED <<size, global_n, mi, local_start, local_end, local_rows, heap, mat,
                   bad, local_norm, global_norm, reduce_buf, err, out, status>>

BarrierLeave(r, b, at, to) ==
    /\ pc[r] = at
    /\ BarrierOpen(b)
    /\ pc' = [pc EXCEPT ![r] = to]
    /\ UNCHANGED <<size, global_n, mi, local_start, local_end, local_rows, heap, mat,
                   bad, local_norm, global_norm, arrived, reduce_buf, err, out,
                   status, coll>>

\* line 212, the call
Barrier1Enter(r) == BarrierEnter(r, 1, "barrier1", "in_barrier1")

\* lines 212-213: MPI_Barrier returns and the rank reads t_start
Barrier1Leave(r) == BarrierLeave(r, 1, "in_barrier1", "multiply")

\* lines 215-217
Multiply(r) ==
    /\ pc[r] = "multiply"
    /\ mat' = [mat EXCEPT ![r][3] =
                 matrix_multiply_local(mat[r][1], mat[r][2], local_rows[r], global_n)]
    /\ bad' = [bad EXCEPT ![r] = @ \/ ~(Live(r, 1) /\ Live(r, 2) /\ Live(r, 3))]
    /\ pc' = [pc EXCEPT ![r] = "add"]
    /\ UNCHANGED <<size, global_n, mi, local_start, local_end, local_rows, heap,
                   local_norm, global_norm, arrived, reduce_buf, err, out, status, coll>>

\* line 228: D_local = C_local + A_local
Add(r) ==
    /\ pc[r] = "add"
    /\ mat' = [mat EXCEPT ![r][4] =
                 matrix_add_local(mat[r][3], mat[r][1], local_rows[r], global_n)]
    /\ bad' = [bad EXCEPT ![r] = @ \/ ~(Live(r, 3) /\ Live(r, 1) /\ Live(r, 4))]
    /\ pc' = [pc EXCEPT ![r] = "norm"]
    /\ UNCHANGED <<size, global_n, mi, local_start, local_end, local_rows, heap,
                   local_norm, global_norm, arrived, reduce_buf, err, out, status, coll>>

\* line 235
Norm(r) ==
    /\ pc[r] = "norm"
    /\ local_norm' = [local_norm EXCEPT ![r] =
                        compute_local_norm(mat[r][3], local_rows[r], global_n)]
    /\ bad' = [bad EXCEPT ![r] = @ \/ ~Live(r, 3)]
    /\ pc' = [pc EXCEPT ![r] = "reduce"]
    /\ UNCHANGED <<size, global_n, mi, local_start, local_end, local_rows, heap, mat,
                   global_norm, arrived, reduce_buf, err, out, status, coll>>

\* the ranks whose contribution MPI_Reduce holds
Contributed == {x[1] : x \in reduce_buf}

\* MPI_Reduce returns on the root once it holds the contribution of every
\* rank; on another rank it may return as soon as the rank has contributed
\* mutant: the root does not wait for the other ranks
ReduceReady_NoWait(r) == TRUE

ReduceReady(r) == r # Root \/ Contributed = Ranks

\* line 238, the call: the rank hands local_norm to the reduction
ReduceEnter(r) ==
    /\ pc[r] = "reduce"
    /\ reduce_buf' = reduce_buf \cup {<<r, local_norm[r]>>}
    /\ coll' = [coll EXCEPT ![r] = Append(@, "Reduce")]
    /\ pc' = [pc EXCEPT ![r] = "in_reduce"]
    /\ UNCHANGED <<size, global_n, mi, local_start, local_end, local_rows, heap, mat,
                   bad, local_norm, global_norm, arrived, err, out, status>>

\* mutant: the second barrier sits inside the branch of rank 0, so the other
\* ranks go on to the clean-up without entering it
ReduceLeave_BarrierInRootBranch(r) ==
    /\ pc[r] = "in_reduce"
    /\ ReduceReady(r)
    /\ IF r = Root
       THEN global_norm' = [global_norm EXCEPT ![r] = SumBuf(reduce_buf)]
       ELSE UNCHANGED global_norm
    /\ pc' = [pc EXCEPT ![r] = IF r = 0 THEN "sqrt" ELSE "free"]
    /\ UNCHANGED <<size, global_n, mi, local_start, local_end, local_rows, heap, mat,
                   bad, local_norm, arrived, reduce_buf, err, out, status, coll>>

\* lines 238-240: MPI_Reduce returns; the root's receive buffer holds the
\* MPI_SUM of the contributions, the receive buffer of any other rank is not
\* written.  The test of line 240 sends rank 0 to the sqrt and the others on.
ReduceLeave(r) ==
    /\ pc[r] = "in_reduce"
    /\ ReduceReady(r)
    /\ IF r = Root
       THEN global_norm' = [global_norm EXCEPT ![r] = SumBuf(reduce_buf)]
       ELSE UNCHANGED global_norm
    /\ pc' = [pc EXCEPT ![r] = IF r = 0 THEN "sqrt" ELSE "barrier2"]
    /\ UNCHANGED <<size, global_n, mi, local_start, local_end, local_rows, heap, mat,
                   bad, local_norm, arrived, reduce_buf, err, out, status, coll>>

\* lines 241-242, rank 0 only
RootSqrt(r) ==
    /\ pc[r] = "sqrt"
    /\ global_norm' = [global_norm EXCEPT ![r] = Sqrt(@)]
    /\ out' = Append(out, [rank |-> r, norm |-> Sqrt(global_norm[r])])
    /\ pc' = [pc EXCEPT ![r] = "barrier2"]
    /\ UNCHANGED <<size, global_n, mi, local_start, local_end, local_rows, heap, mat,
                   bad, local_norm, arrived, reduce_buf, err, status, coll>>

\* line 250, the call
Barrier2Enter(r) == BarrierEnter(r, 2, "barrier2", "in_barrier2")

\* lines 250-254: MPI_Barrier returns; busy_wait_compute changes no state
Barrier2Leave(r) == BarrierLeave(r, 2, "in_barrier2", "free")

\* free_matrix_local of the matrix at mi[r] (lines 257-260)
FreeMatrix(r) ==
    /\ pc[r] = "free"
    /\ heap' = [heap EXCEPT ![r] = @ \ Pieces(mi[r], RowsOf(r, mi[r]))]
    /\ Advance(r, "finalize")
    /\ UNCHANGED <<size, global_n, local_start, local_end, local_rows, mat, bad,
                   local_norm, global_norm, arrived, reduce_buf, err, out, status, coll>>

\* lines 273-274
Finalize(r) ==
    /\ pc[r] = "finalize"
    /\ status' = [status EXCEPT ![r] = 0]
    /\ pc' = [pc EXCEPT ![r] = "done"]
    /\ UNCHANGED <<size, global_n, mi, local_start, local_end, local_rows, heap, mat,
                   bad, local_norm, global_norm, arrived, reduce_buf, err, out, coll>>

\* one step of rank r in which no malloc returns NULL
RankStepOk(r) ==
    \/ Parse(r) \/ Chunk(r) \/ AllocOk(r) \/ InitMatrix(r)
    \/ Barrier1Enter(r) \/ Barrier1Leave(r) \/ Multiply(r) \/ Add(r) \/ Norm(r)
    \/ ReduceEnter(r) \/ ReduceLeave(r) \/ RootSqrt(r)
    \/ Barrier2Enter(r) \/ Barrier2Leave(r) \/ FreeMatrix(r) \/ Finalize(r)

\* one step of rank r
RankStep(r) == RankStepOk(r) \/ AllocFail(r)

\* the steps of a run in which no malloc returns NULL
NextOk ==
    \/ \E r \in Ranks : Parse(r)
    \/ \E r \in Ranks : Chunk(r)
    \/ \E r \in Ranks : AllocOk(r)
    \/ \E r \in Ranks : InitMatrix(r)
    \/ \E r \in Ranks : Barrier1Enter(r)
    \/ \E r \in Ranks : Barrier1Leave(r)
    \/ \E r \in Ranks : Multiply(r)
    \/ \E r \in Ranks : Add(r)
    \/ \E r \in Ranks : Norm(r)
    \/ \E r \in Ranks : ReduceEnter(r)
    \/ \E r \in Ranks : ReduceLeave(r)
    \/ \E r \in Ranks : RootSqrt(r)
    \/ \E r \in Ranks : Barrier2Enter(r)
    \/ \E r \in Ranks : Barrier2Leave(r)
    \/ \E r \in Ranks : FreeMatrix(r)
    \/ \E r \in Ranks : Finalize(r)

Next ==
    \/ NextOk
    \/ \E r \in Ranks : AllocFail(r)

Spec == Init /\ [][Next]_vars

\* every rank is a process of its own that the operating system keeps
\* running: a rank that can take a step eventually takes one
FairSpec == Spec /\ \A r \in 0 .. (MaxP - 1) : WF_vars(r \in Ranks /\ RankStep(r))

\* the runs in which no malloc returns NULL, under the same scheduling
NoFailSpec ==
    /\ Init
    /\ [][NextOk]_vars
    /\ \A r \in 0 .. (MaxP - 1) : WF_vars(r \in Ranks /\ RankStepOk(r))

\* ------------------------------------- compute_local_chunk called on its own
\* the function applied to every (rank, size, global_n) of its domain
\* size >= 1, 0 <= rank < size, global_n >= 0
ChunkInit ==
    /\ size \in 1 .. MaxChunkP
    /\ global_n \in 0 .. MaxChunkN
    /\ pc = [r \in Ranks |-> "call"]
    /\ mi = [r \in Ranks |-> 1]
    /\ local_start = [r \in Ranks |-> Garbage]
    /\ local_end = [r \in Ranks |-> Garbage]
    /\ local_rows = [r \in Ranks |-> Garbage]
    /\ heap = [r \in Ranks |-> {}]
    /\ mat = [r \in Ranks |-> [k \in 1 .. Len(Mats) |-> << >>]]
    /\ bad = [r \in Ranks |-> FALSE]
    /\ local_norm = [r \in Ranks |-> Garbage]
    /\ global_norm = [r \in Ranks |-> Garbage]
    /\ arrived = [b \in 1 .. 2 |-> {}]
    /\ reduce_buf = {}
    /\ err = [r \in Ranks |-> << >>]
    /\ out = << >>
    /\ status = [r \in Ranks |-> Running]
    /\ coll = [r \in Ranks |-> << >>]

CallChunk(r) ==
    /\ pc[r] = "call"
    /\ local_start' = [local_start EXCEPT ![r] = ChunkStart(r, size, global_n)]
    /\ local_end' = [local_end EXCEPT ![r] = ChunkEnd(r, size, global_n)]
    /\ pc' = [pc EXCEPT ![r] = "returned"]
    /\ UNCHANGED <<size, global_n, mi, local_rows, heap, mat, bad, local_norm,
                   global_norm, arrived, reduce_buf, err, out, status, coll>>

ChunkNext == \E r \in Ranks : CallChunk(r)

ChunkSpec == ChunkInit /\ [][ChunkNext]_vars

\* ================================================================= claims
\* positions of main
Stopped == {"exit_invalid", "exit_alloc", "done"}
PreBarrier1 == {"parse", "chunk", "alloc", "init", "barrier1", "exit_invalid", "exit_alloc"}
PastBarrier1 == {"multiply", "add", "norm", "reduce", "in_reduce", "sqrt", "barrier2",
                 "in_barrier2", "free", "finalize", "done"}
\* positions at which C_local holds the product and is not yet released
HoldsProduct == {"add", "norm", "reduce", "in_reduce", "sqrt", "barrier2", "in_barrier2"}
AllocFailed == \E r \in Ranks : pc[r] = "exit_alloc"
AllDone == \A r \in Ranks : pc[r] = "done"

\* ---------------------------------------------------------------------- C1
\* the ranks on which compute_local_chunk has returned
Returned == {r \in Ranks : pc[r] = "returned"}
RowsIn(r) == {i \in 0 .. (global_n - 1) : local_start[r] <= i /\ i < local_end[r]}

\* C1: for every n >= 0 and size >= 1 the ranges [local_start, local_end) of
\* the ranks cover [0, n) exactly: no range leaves [0, n), no two ranges of
\* different ranks share a row, and once every rank has its range every row
\* of [0, n) lies in the range of exactly one rank (also when n < size).
C1_ChunksCoverExactly ==
    /\ \A r \in Returned :
         0 <= local_start[r] /\ local_start[r] <= local_end[r] /\ local_end[r] <= global_n
    /\ \A r, q \in Returned : r # q => RowsIn(r) \cap RowsIn(q) = {}
    /\ Returned = Ranks =>
         \A i \in 0 .. (global_n - 1) :
            Cardinality({r \in Ranks : local_start[r] <= i /\ i < local_end[r]}) = 1

\* every rank has its range, n < size, and some rank has an empty range
\* while another has a row
C1_Witness ==
    /\ Returned = Ranks
    /\ 0 < global_n /\ global_n < size
    /\ \E r, q \in Ranks : local_start[r] = local_end[r] /\ local_start[q] < local_end[q]

\* ---------------------------------------------------------------------- C5
\* C5: every rank below n mod size gets floor(n / size) + 1 rows and every
\* other rank floor(n / size) rows, so two ranks differ by at most one row;
\* for n = 4 and size = 3 the ranges are [0,2), [2,3), [3,4).
C5_BalancedChunks ==
    /\ \A r \in Returned :
         local_end[r] - local_start[r] =
            (global_n \div size) + (IF r < global_n % size THEN 1 ELSE 0)
    /\ \A r, q \in Returned :
         (local_end[r] - local_start[r]) - (local_end[q] - local_start[q]) \in {-1, 0, 1}
    /\ (global_n = 4 /\ size = 3) =>
         \A r \in Returned :
            <<local_start[r], local_end[r]>> = <<<<0, 2>>, <<2, 3>>, <<3, 4>>>>[r + 1]

C5_Witness ==
    /\ global_n = 4 /\ size = 3 /\ Returned = Ranks
    /\ local_end[0] - local_start[0] = 2
    /\ local_end[2] - local_start[2] = 1

\* ---------------------------------------------------------------------- C2
\* C2: the sum MPI_Reduce delivers to rank 0 is the sum of squares of the
\* n x n product of the serial program, and the norm printed is the serial
\* norm; every rank's C_local is the serial product's rows local_start ..
\* local_end - 1; for n = 2 every cell is 4, the sum is 64 and the norm 8.
C2_ReducedSumIsSerial ==
    /\ \A r \in Ranks : pc[r] \in HoldsProduct =>
         /\ \A i \in 0 .. (local_rows[r] - 1) :
               mat[r][3][i] = SerialC(global_n)[local_start[r] + i]
         /\ global_n = 2 =>
               \A i \in 0 .. (local_rows[r] - 1) : \A j \in 0 .. 1 : mat[r][3][i][j] = 4
    /\ \A r \in Ranks : pc[r] = "sqrt" =>
         /\ global_norm[r] = frobenius_sum(SerialC(global_n), global_n)
         /\ global_n = 2 => global_norm[r] = 64
    /\ \A k \in 1 .. Len(out) :
         /\ out[k].norm = compute_frobenius_norm(SerialC(global_n), global_n)
         /\ global_n = 2 => out[k].norm = 8

\* three ranks, n = 2, and rank 0 has printed the norm 8
C2_Witness ==
    /\ size = 3 /\ global_n = 2
    /\ out = <<[rank |-> 0, norm |-> 8]>>

\* ---------------------------------------------------------------------- C3
\* the pre-barrier work of rank q is done: its range is computed, its four
\* matrices are allocated with their shapes (and live until the clean-up),
\* A_local and B hold their constants, and it has entered the first barrier
PreBarrierDone(q) ==
    /\ q \in arrived[1]
    /\ pc[q] \notin PreBarrier1
    /\ local_rows[q] = ChunkEnd(q, size, global_n) - ChunkStart(q, size, global_n)
    /\ mat[q][1] = initialize_matrix_local(local_rows[q], global_n, 1)
    /\ mat[q][2] = initialize_matrix_local(global_n, global_n, 2)
    /\ \A k \in 1 .. Len(Mats) : DOMAIN mat[q][k] = 0 .. (RowsOf(q, k) - 1)
    /\ pc[q] \notin {"free", "finalize", "done"} => \A k \in 1 .. Len(Mats) : Live(q, k)

\* C3: whenever some rank is past the first MPI_Barrier (it has read t_start
\* or is further on), every rank has finished its pre-barrier operations and
\* has entered that barrier.
C3_BarrierOrdersPhases ==
    \A r \in Ranks : pc[r] \in PastBarrier1 => \A q \in Ranks : PreBarrierDone(q)

\* one rank is past the barrier while another is still inside it
C3_Witness ==
    /\ size >= 2
    /\ \E r, q \in Ranks : pc[r] = "multiply" /\ pc[q] = "in_barrier1"

\* ---------------------------------------------------------------------- C4
RECURSIVE SumLocalNorms(_)
SumLocalNorms(k) == IF k = 0 THEN 0 ELSE SumLocalNorms(k - 1) + local_norm[k - 1]

\* C4: the value rank 0 takes the square root of and prints is the sum of
\* the local_norm of all ranks, each counted once, read only after every
\* rank has contributed; no other rank receives, reads or prints it.
C4_RootGetsSumOnce ==
    /\ \A x \in reduce_buf : x[2] = local_norm[x[1]] /\ pc[x[1]] \notin PreBarrier1
    /\ Cardinality(reduce_buf) = Cardinality(Contributed)
    /\ pc[Root] \in {"sqrt", "barrier2", "in_barrier2", "free", "finalize", "done"} =>
         /\ Contributed = Ranks
         /\ \A r \in Ranks : local_norm[r] # Garbage
    /\ pc[Root] = "sqrt" => global_norm[Root] = SumLocalNorms(size)
    /\ \A k \in 1 .. Len(out) :
         out[k] = [rank |-> Root, norm |-> Sqrt(SumLocalNorms(size))]
    /\ Len(out) <= 1
    /\ \A r \in Ranks : r # Root => global_norm[r] = Garbage /\ pc[r] # "sqrt"

\* three ranks with different row counts, every rank done, the norm printed
C4_Witness ==
    /\ size = 3 /\ global_n = 2 /\ AllDone
    /\ Len(out) = 1
    /\ local_norm[0] > 0 /\ local_norm[2] = 0

\* ---------------------------------------------------------------------- C6
\* C6 as stated: a run with n = 0 ends with the root having produced the
\* final norm 0.0.
C6_ZeroSizeGivesNormZero ==
    (global_n = 0 /\ \A r \in Ranks : pc[r] \in Stopped) =>
        out = <<[rank |-> Root, norm |-> 0]>>

\* C6 amended: compute_local_chunk gives every rank an empty range for n = 0
\* and the kernels on an empty block leave the sum 0 and the norm 0, but a
\* run with n = 0 never gets there: every rank leaves main at the size check
\* with status 1, without a range, a block, a collective or a norm.
C6_ZeroSizeIsRejected ==
    /\ \A P \in 1 .. MaxP : \A r \in 0 .. (P - 1) : ChunkStart(r, P, 0) = ChunkEnd(r, P, 0)
    /\ compute_local_norm(
          matrix_multiply_local(initialize_matrix_local(0, 0, 1),
                                initialize_matrix_local(0, 0, 2), 0, 0), 0, 0) = 0
    /\ Sqrt(0) = 0
    /\ global_n = 0 =>
         /\ \A r \in Ranks :
              /\ pc[r] \in {"parse", "exit_invalid"}
              /\ pc[r] = "exit_invalid" => status[r] = EXIT_FAILURE_STATUS
              /\ local_rows[r] = Garbage
              /\ heap[r] = {}
              /\ coll[r] = << >>
         /\ reduce_buf = {}
         /\ out = << >>

C6_Witness ==
    /\ global_n = 0 /\ size >= 2
    /\ \A r \in Ranks : pc[r] = "exit_invalid"

\* ---------------------------------------------------------------------- C7
\* C7: with n <= 0 every rank leaves at the size check with a failure
\* status, before it allocates anything and before it enters a barrier or
\* the reduction, so no rank waits in a collective; the message is written
\* once for the whole run, by rank 0.
C7_InvalidSizeLeavesAtEntry ==
    global_n <= 0 =>
        /\ \A r \in Ranks :
             /\ pc[r] \in {"parse", "exit_invalid"}
             /\ pc[r] = "exit_invalid" => status[r] = EXIT_FAILURE_STATUS
             /\ pc[r] = "parse" => status[r] = Running /\ err[r] = << >>
             /\ heap[r] = {}
             /\ coll[r] = << >>
             /\ r # 0 => err[r] = << >>
        /\ arrived[1] = {} /\ arrived[2] = {} /\ reduce_buf = {}
        /\ pc[0] = "exit_invalid" => err[0] = <<"Matrix size must be positive">>

C7_Witness ==
    /\ global_n < 0 /\ size >= 2
    /\ \A r \in Ranks : pc[r] = "exit_invalid"
    /\ Len(err[0]) = 1

\* ---------------------------------------------------------------------- C8
\* C8: once an allocation has failed in some rank, eventually every rank has
\* stopped (none stays blocked in MPI_Barrier or MPI_Reduce for ever).
C8_RunTerminatesAfterAllocFailure ==
    AllocFailed ~> (\A r \in Ranks : pc[r] \in Stopped)

\* ---------------------------------------------------------------------- C9
\* C9: a rank that has left main, on whatever path, holds no allocation
\* any more, and no kernel has touched a block that was not live.
C9_ReleasedOnEveryExit ==
    \A r \in Ranks : (pc[r] \in Stopped => heap[r] = {}) /\ ~bad[r]

\* --------------------------------------------------------------------- C10
CollectiveOrder == <<"Barrier", "Reduce", "Barrier">>

C10_Safe ==
    /\ \A r \in Ranks :
         /\ Len(coll[r]) <= Len(CollectiveOrder)
         /\ coll[r] = SubSeq(CollectiveOrder, 1, Len(coll[r]))
         /\ pc[r] = "done" => coll[r] = CollectiveOrder
    /\ (global_n >= 1 /\ ~AllDone) => ENABLED NextOk

\* C10: for n >= 1, in the runs in which no allocation fails, every rank
\* enters the same collectives in the same order (barrier, reduction,
\* barrier) whatever its rank and row count; no state is a deadlock, and
\* under fair scheduling every rank eventually reaches MPI_Finalize and
\* returns.
C10_AllRanksFinish ==
    /\ []C10_Safe
    /\ global_n >= 1 => <>AllDone

\* n < size: a rank with an empty range has gone through all collectives
C10_Witness ==
    /\ global_n = 1 /\ size = 3 /\ AllDone
    /\ local_rows[2] = 0
    /\ coll[2] = CollectiveOrder

====
